---- MODULE Spec2Model ----
(***************************************************************************)
(* Multi-turn recommendation session engine of kindhabit/JERRY:            *)
(*   - Session / SessionManager      (1_SRC/models/session.py,             *)
(*                                    1_SRC/core/session/session_manager.py)*)
(*   - AnswerProcessor               (1_SRC/core/analysis/answer_processor.py)*)
(*   - EnhancedHealthAnalyzer        (1_SRC/core/analysis/health_analyzer.py)*)
(*   - PatternService                (1_SRC/core/services/pattern_service.py)*)
(*   - QuestionGenerator             (1_SRC/core/analysis/question_generator.py)*)
(*   - HealthDataAnalyzer            (1_SRC/core/analysis/client_health_analyzer.py)*)
(*                                                                         *)
(* Scores and confidences of the analyzer are kept in thousandths          *)
(* (0.95 = 950).  Pattern confidences are exact rationals <<num, den>>.    *)
(* An Optional value is a sequence: <<>> is None, <<v>> is the value v.    *)
(***************************************************************************)
EXTENDS Integers, Sequences, FiniteSets, TLC

VARIABLES
    \* ---- one Session held in SessionManager._sessions -------------------
    live,               \* the session id is a key of SessionManager._sessions
    status,             \* Session.status
    current_step,       \* Session.current_step
    answers,            \* Session.answers (question_id of each Answer)
    current_questions,  \* Session.current_questions
    analysis_results,   \* Session.analysis_results (Optional[AnalysisResult])
    \* ---- answer submissions in flight (process_answer coroutines) --------
    proc,
    \* ---- one run of EnhancedHealthAnalyzer.analyze -----------------------
    an_pc,              \* "idle", "built" (steps 1-7 done), "returned", "raised"
    an,                 \* the local values of analyze
    an_result,          \* the AnalysisResult analyze returned (Optional)
    \* ---- PatternService ---------------------------------------------------
    patterns,           \* PatternService.patterns: bucket -> patterns by id
    feedback_history,   \* number of entries of PatternService.feedback_history
    learn,              \* the learn_from_interaction coroutines
    running,            \* the coroutine holding the event loop, 0 for none
    observed,           \* per stored pattern: sum and count of the confidences
                        \* it absorbed (bookkeeping of the model)
    repeated,           \* the observation every learn_from_interaction call
                        \* so far was given, None before the first call
                        \* (bookkeeping of the model)
    \* ---- QuestionGenerator ------------------------------------------------
    generated,          \* the generate_questions calls made so far: what each
                        \* was called with and what it gave
    \* ---- HealthDataAnalyzer ------------------------------------------------
    risk_call           \* the analyze_risk_factors call made, None before it

session_vars == <<live, status, current_step, answers, current_questions,
                  analysis_results>>
analyzer_vars == <<an_pc, an, an_result>>
pattern_vars == <<patterns, feedback_history, learn, running, observed, repeated>>
generator_vars == <<generated>>
risk_vars == <<risk_call>>
vars == <<live, status, current_step, answers, current_questions,
          analysis_results, proc, an_pc, an, an_result,
          patterns, feedback_history, learn, running, observed, repeated,
          generated, risk_call>>

None == <<>>
Some(v) == <<v>>

(***************************************************************************)
(* Bounds of the model.                                                    *)
(***************************************************************************)
MaxAnswers == 6
MaxQuestions == 2
MaxStepArg == 2
MaxTasks == 2
MaxCalls == 3
MaxGenerate == 2

(***************************************************************************)
(* Session: fields and defaults.                                           *)
(***************************************************************************)
total_expected_steps == 5

\* The status values of the session state machine (SessionStatus).
Statuses == {"created", "analyzing", "waiting_answer", "completed", "failed"}
\* Session.update_status takes any str; "paused" stands for a string that is
\* not a status of the state machine.
StatusArgs == Statuses \cup {"paused"}
WAITING_ANSWER == "waiting_answer"

\* A question context is the pair <<prefix, rest>> of the tag "prefix_rest".
Question(i, prefix, rest) == [id |-> i, context |-> <<prefix, rest>>]
Questions ==
    { Question("q1", "health_risk", "obesity"),
      Question("q2", "lifestyle", "exercise_barrier"),
      Question("q3", "medication", "interaction_warfarin"),
      Question("q4", "condition", "history_diabetes") }
\* question_id values an Answer may carry; "qx" matches no question.
AnswerIds == {"q1", "q2", "q3", "q4", "qx"}
\* The lifecycle operations are driven with two of the question ids and two
\* of the questions.
LifecycleAnswerIds == {"q1", "qx"}
LifecycleQuestions == { q \in Questions : q.id \in {"q1", "q2"} }

\* AnalysisResult() with every list empty.
EmptyResult ==
    [ primary_concerns |-> <<>>,
      recommendations |-> <<>>,
      interaction_warnings |-> <<>>,
      required_checks |-> <<>>,
      evidence |-> <<>>,
      confidence_levels |-> <<>> ]

RiskFactor(t, sev) == [type |-> t, severity |-> sev, confidence |-> 0]

\* AnalysisResult values handed to update_analysis / add_analysis_result.
ResultArgs ==
    { EmptyResult,
      [EmptyResult EXCEPT !.primary_concerns = <<RiskFactor("obesity", "medium")>>] }

\* Lists of questions handed to add_questions / update_questions.
QuestionListArgs ==
    {<<>>} \cup { <<q>> : q \in LifecycleQuestions }

(***************************************************************************)
(* Session methods (models/session.py).                                    *)
(***************************************************************************)
update_status(new_status) ==
    /\ status' = new_status
    /\ UNCHANGED <<live, current_step, answers, current_questions,
                   analysis_results, proc, analyzer_vars, pattern_vars, generator_vars, risk_vars>>

add_answer(question_id) ==
    /\ Len(answers) < MaxAnswers
    /\ answers' = Append(answers, question_id)
    /\ current_step' = current_step + 1
    /\ UNCHANGED <<live, status, current_questions, analysis_results, proc, analyzer_vars, pattern_vars, generator_vars, risk_vars>>

update_analysis(analysis) ==
    /\ analysis_results' = Some(analysis)
    /\ UNCHANGED <<live, status, current_step, answers, current_questions, proc, analyzer_vars, pattern_vars, generator_vars, risk_vars>>

update_questions(questions) ==
    /\ current_questions' = questions
    /\ UNCHANGED <<live, status, current_step, answers, analysis_results, proc, analyzer_vars, pattern_vars, generator_vars, risk_vars>>

(***************************************************************************)
(* SessionManager methods (core/session/session_manager.py).  Each looks   *)
(* the session up first and returns None, changing nothing, when the id is *)
(* not in _sessions.                                                       *)
(***************************************************************************)
get_session == live

\* step = 0 stands for the falsy values (None, "", 0) of the step argument.
update_session_status(st, step) ==
    /\ IF get_session
         THEN /\ status' = st
              /\ current_step' = IF step # 0 THEN step ELSE current_step
         ELSE UNCHANGED <<status, current_step>>
    /\ UNCHANGED <<live, answers, current_questions, analysis_results, proc, analyzer_vars, pattern_vars, generator_vars, risk_vars>>

add_analysis_result(result) ==
    /\ IF get_session
         THEN analysis_results' = Some(result)
         ELSE UNCHANGED analysis_results
    /\ UNCHANGED <<live, status, current_step, answers, current_questions, proc, analyzer_vars, pattern_vars, generator_vars, risk_vars>>

add_questions(questions) ==
    /\ Len(current_questions) + Len(questions) <= MaxQuestions
    /\ IF get_session
         THEN /\ current_questions' = current_questions \o questions
              /\ status' = WAITING_ANSWER
         ELSE UNCHANGED <<current_questions, status>>
    /\ UNCHANGED <<live, current_step, answers, analysis_results, proc, analyzer_vars, pattern_vars, generator_vars, risk_vars>>

manager_add_answer(question_id) ==
    /\ Len(answers) < MaxAnswers
    /\ IF get_session
         THEN answers' = Append(answers, question_id)
         ELSE UNCHANGED answers
    /\ UNCHANGED <<live, status, current_step, current_questions,
                   analysis_results, proc, analyzer_vars, pattern_vars, generator_vars, risk_vars>>

cleanup_session ==
    /\ live
    /\ live' = FALSE
    /\ UNCHANGED <<status, current_step, answers, current_questions,
                   analysis_results, proc, analyzer_vars, pattern_vars, generator_vars, risk_vars>>

(***************************************************************************)
(* AnswerProcessor (core/analysis/answer_processor.py): pure parts.        *)
(***************************************************************************)
\* Replies of the evidence store to one similarity_search: 0 is an empty
\* result set, a positive number the top relevance in thousandths.
StoreReplies == {0, 850}

\* question.context of the first question whose id is the answer's, or None.
_build_answer_context(questions, question_id) ==
    LET hits == { i \in 1..Len(questions) : questions[i].id = question_id }
    IN  IF hits = {} THEN None
        ELSE Some(questions[CHOOSE i \in hits : \A j \in hits : i <= j].context)

\* question_context.startswith(...): a None context has no startswith and
\* raises AttributeError.
_determine_answer_type(question_context) ==
    IF question_context = None THEN "AttributeError"
    ELSE LET prefix == question_context[1][1]
         IN  CASE prefix = "health_risk" -> "health_risk"
               [] prefix = "lifestyle"   -> "lifestyle"
               [] prefix = "medication"  -> "medication"
               [] OTHER                  -> "general"

\* The analysis dict _analyze_answer returns once the store has replied.
_analyze_answer(answer_type, question_context, reply) ==
    LET rest == question_context[1][2]
        found == reply # 0
    IN  CASE answer_type = "health_risk" ->
               [ answer_type |-> answer_type,
                 relevant_factors |->
                     IF found THEN << [type |-> rest, severity |-> "none",
                                       confidence |-> reply] >>
                     ELSE <<>>,
                 recommendations |-> <<>> ]
          [] answer_type = "lifestyle" ->
               [ answer_type |-> answer_type,
                 relevant_factors |->
                     IF found THEN << [type |-> rest \o "_lifestyle",
                                       severity |-> "none",
                                       confidence |-> reply] >>
                     ELSE <<>>,
                 recommendations |->
                     IF found THEN << [type |-> "lifestyle_change",
                                       target |-> rest] >>
                     ELSE <<>> ]
          [] answer_type = "medication" ->
               [ answer_type |-> answer_type,
                 relevant_factors |->
                     IF found THEN << [type |-> "medication_interaction",
                                       severity |-> "none",
                                       confidence |-> reply] >>
                     ELSE <<>>,
                 recommendations |-> <<>> ]
          [] OTHER ->
               [ answer_type |-> "general",
                 relevant_factors |-> <<>>,
                 recommendations |-> <<>> ]

\* Index of the first element of seq satisfying Match, 0 when there is none.
FirstIndex(seq, Match(_)) ==
    LET hits == { i \in 1..Len(seq) : Match(seq[i]) }
    IN  IF hits = {} THEN 0 ELSE CHOOSE i \in hits : \A j \in hits : i <= j

\* Variant: every new factor is appended.
_update_health_risks_always_append(current_risks, new_factors) ==
    current_risks \o new_factors

\* existing.update(factor): the factor's keys overwrite, severity is kept.
RECURSIVE _update_health_risks(_, _)
_update_health_risks(current_risks, new_factors) ==
    IF new_factors = <<>> THEN current_risks
    ELSE LET factor == Head(new_factors)
             SameType(r) == r.type = factor.type
             i == FirstIndex(current_risks, SameType)
             merged ==
                 IF i # 0
                   THEN [current_risks EXCEPT ![i] =
                            [type |-> factor.type,
                             severity |-> current_risks[i].severity,
                             confidence |-> factor.confidence]]
                   ELSE Append(current_risks, factor)
         IN  _update_health_risks(merged, Tail(new_factors))

RECURSIVE _update_recommendations(_, _)
_update_recommendations(current_recs, new_recs) ==
    IF new_recs = <<>> THEN current_recs
    ELSE LET rec == Head(new_recs)
             Same(r) == r.type = rec.type /\ r.target = rec.target
             i == FirstIndex(current_recs, Same)
             merged ==
                 IF i # 0 THEN [current_recs EXCEPT ![i] = rec]
                 ELSE Append(current_recs, rec)
         IN  _update_recommendations(merged, Tail(new_recs))

\* An entry of AnalysisResult.recommendations is a Recommendation model
\* (type, name, confidence, reason) when analyze built it and a dict
\* (type, target) when an answer's merge appended it.
IsModel(r) == "name" \in DOMAIN r

\* r["type"] in the scan of current_recs: a Recommendation model cannot be
\* subscripted, so the scan raises TypeError when it comes to one before it
\* has found the dict it looks for.
RECURSIVE _update_recommendations_raises(_, _)
_update_recommendations_raises(current_recs, new_recs) ==
    IF new_recs = <<>> THEN FALSE
    ELSE LET rec == Head(new_recs)
             Stops(r) == IsModel(r) \/ (r.type = rec.type /\ r.target = rec.target)
             i == FirstIndex(current_recs, Stops)
         IN  IF i # 0 /\ IsModel(current_recs[i]) THEN TRUE
             ELSE _update_recommendations_raises(
                      _update_recommendations(current_recs, <<rec>>), Tail(new_recs))

_update_analysis_result_raises(current_result, analysis) ==
    /\ current_result # None
    /\ analysis.recommendations # <<>>
    /\ _update_recommendations_raises(current_result[1].recommendations,
                                      analysis.recommendations)

\* Works on a deep copy of current_result; None when there is no result.
_update_analysis_result(current_result, analysis) ==
    IF current_result = None THEN None
    ELSE LET r0 == current_result[1]
             r1 == IF analysis.answer_type = "health_risk"
                     THEN [r0 EXCEPT !.primary_concerns =
                              _update_health_risks(r0.primary_concerns,
                                                   analysis.relevant_factors)]
                     ELSE r0
             r2 == IF analysis.recommendations # <<>>
                     THEN [r1 EXCEPT !.recommendations =
                              _update_recommendations(r1.recommendations,
                                                      analysis.recommendations)]
                     ELSE r1
         IN  Some(r2)

\* One search per relevant factor (each analysis holds at most one factor);
\* reply is the store's answer to it.
_search_additional_evidence(analysis, reply) ==
    IF analysis.relevant_factors # <<>> /\ reply # 0
      THEN << [factor |-> analysis.relevant_factors[1].type,
               relevance |-> reply] >>
      ELSE <<>>

\* Variant: the evidence list is replaced by the new evidence.
ExtendEvidence_replaces(updated_result, evidence) ==
    IF updated_result = None THEN None
    ELSE Some([updated_result[1] EXCEPT !.evidence = evidence])

\* Step 5 of process_answer: updated_result.evidence.extend(evidence).
ExtendEvidence(updated_result, evidence) ==
    IF updated_result = None THEN None
    ELSE Some([updated_result[1] EXCEPT !.evidence = @ \o evidence])

(***************************************************************************)
(* process_answer as a coroutine.  It runs without interruption between    *)
(* two awaits of the evidence store, where other coroutines may run.       *)
(*   idle -> analyzing -> searching -> returned -> done                    *)
(* "raised" is an exception leaving process_answer.                        *)
(***************************************************************************)
NoAnalysis == [answer_type |-> "general", relevant_factors |-> <<>>,
               recommendations |-> <<>>]

ProcState(pc, qid, ctx, analysis, updated, evidence, result) ==
    [ pc |-> pc, question_id |-> qid, question_context |-> ctx,
      analysis |-> analysis, updated_result |-> updated,
      evidence |-> evidence, result |-> result ]

\* Steps 1-2 up to the first await.  A "general" answer awaits nothing, so
\* steps 3-5 follow at once.
process_answer_begin(t, question_id) ==
    /\ proc[t].pc = "idle"
    /\ LET ctx == _build_answer_context(current_questions, question_id)
           type == _determine_answer_type(ctx)
       IN  proc' = [proc EXCEPT ![t] =
             IF type = "AttributeError"
               THEN ProcState("raised", question_id, ctx, NoAnalysis,
                              None, <<>>, None)
             ELSE IF type = "general"
               THEN LET updated == _update_analysis_result(analysis_results,
                                                           NoAnalysis)
                    IN  ProcState("returned", question_id, ctx, NoAnalysis,
                                  updated, <<>>, ExtendEvidence(updated, <<>>))
             ELSE ProcState("analyzing", question_id, ctx,
                            [NoAnalysis EXCEPT !.answer_type = type],
                            None, <<>>, None)]
    /\ UNCHANGED <<session_vars, analyzer_vars, pattern_vars, generator_vars, risk_vars>>

\* Variant: step 3 merges into session.analysis_results itself, not into a
\* copy of it.
process_answer_analyzed_in_place(t, reply) ==
    /\ proc[t].pc = "analyzing"
    /\ LET p == proc[t]
           analysis == _analyze_answer(p.analysis.answer_type,
                                       p.question_context, reply)
           updated == _update_analysis_result(analysis_results, analysis)
       IN  IF _update_analysis_result_raises(analysis_results, analysis)
             THEN /\ proc' = [proc EXCEPT ![t] =
                                 [p EXCEPT !.pc = "raised", !.analysis = analysis]]
                  /\ UNCHANGED analysis_results
             ELSE /\ proc' = [proc EXCEPT ![t] =
                        IF analysis.relevant_factors # <<>>
                          THEN [p EXCEPT !.pc = "searching", !.analysis = analysis,
                                         !.updated_result = updated]
                          ELSE [p EXCEPT !.pc = "returned", !.analysis = analysis,
                                         !.updated_result = updated,
                                         !.result = ExtendEvidence(updated, <<>>)]]
                  /\ analysis_results' = updated
    /\ UNCHANGED <<live, status, current_step, answers, current_questions,
                   analyzer_vars, pattern_vars, generator_vars, risk_vars>>

\* The store replies to the type-specific search: step 2 ends, step 3 copies
\* and merges session.analysis_results as it is now (or raises), step 4
\* starts.
process_answer_analyzed(t, reply) ==
    /\ proc[t].pc = "analyzing"
    /\ LET p == proc[t]
           analysis == _analyze_answer(p.analysis.answer_type,
                                       p.question_context, reply)
           updated == _update_analysis_result(analysis_results, analysis)
       IN  proc' = [proc EXCEPT ![t] =
             IF _update_analysis_result_raises(analysis_results, analysis)
               THEN [p EXCEPT !.pc = "raised", !.analysis = analysis]
             ELSE IF analysis.relevant_factors # <<>>
               THEN [p EXCEPT !.pc = "searching", !.analysis = analysis,
                              !.updated_result = updated]
               ELSE [p EXCEPT !.pc = "returned", !.analysis = analysis,
                              !.updated_result = updated,
                              !.result = ExtendEvidence(updated, <<>>)]]
    /\ UNCHANGED <<session_vars, analyzer_vars, pattern_vars, generator_vars, risk_vars>>

\* The store replies to the additional-evidence search: steps 4-5 end.
process_answer_evidence(t, reply) ==
    /\ proc[t].pc = "searching"
    /\ LET p == proc[t]
           evidence == _search_additional_evidence(p.analysis, reply)
       IN  proc' = [proc EXCEPT ![t] =
             [p EXCEPT !.pc = "returned", !.evidence = evidence,
                       !.result = ExtendEvidence(p.updated_result, evidence)]]
    /\ UNCHANGED <<session_vars, analyzer_vars, pattern_vars, generator_vars, risk_vars>>

\* The awaited search raises: the exception is logged and re-raised.
process_answer_raise(t) ==
    /\ proc[t].pc \in {"analyzing", "searching"}
    /\ proc' = [proc EXCEPT ![t].pc = "raised"]
    /\ UNCHANGED <<session_vars, analyzer_vars, pattern_vars, generator_vars, risk_vars>>

\* The caller stores the returned result with Session.update_analysis; a
\* None result is not stored.
install_result(t) ==
    /\ proc[t].pc = "returned"
    /\ proc' = [proc EXCEPT ![t].pc = "done"]
    /\ IF proc[t].result # None
         THEN analysis_results' = Some(proc[t].result[1])
         ELSE UNCHANGED analysis_results
    /\ UNCHANGED <<live, status, current_step, answers, current_questions,
                   analyzer_vars, pattern_vars, generator_vars, risk_vars>>

(***************************************************************************)
(* EnhancedHealthAnalyzer (core/analysis/health_analyzer.py).              *)
(* A dict key that is absent is the value Missing.                         *)
(***************************************************************************)
Missing == "<missing>"

CONFIDENCE_CAP == 950          \* 0.95
HIGH_SEVERITY_ABOVE == 800     \* 0.8
GLUCOSE_LIMIT == 100

\* Hits of the "supplements" search that analyze is run with.
MaxHits == 2
SupplementNames == {"Omega-3", "Vitamin E"}
HitScores == {123, 1000}
SupplementHitLists ==
    UNION { [1..k -> [name : SupplementNames, score : HitScores]] : k \in 0..MaxHits }
\* Replies of the "interactions" / "health_data" lookups for one pair.
LookupReplies == {0, 800, 850}

SeqRange(seq) == { seq[i] : i \in 1..Len(seq) }

Mapped(seq, F(_)) == [i \in 1..Len(seq) |-> F(seq[i])]

RECURSIVE Flatten(_)
Flatten(seqs) == IF seqs = <<>> THEN <<>> ELSE Head(seqs) \o Flatten(Tail(seqs))

\* One search per risk factor; an entry carries risk_type, papers and
\* relevance_score, and no "type" key.
_search_risk_evidence(risk_factors, reply) ==
    LET Entry(risk) ==
            IF reply # 0
              THEN << [type |-> Missing, risk_type |-> risk.type,
                       relevance_score |-> reply] >>
              ELSE <<>>
    IN  Flatten(Mapped(risk_factors, Entry))

\* Supplement dicts carry type, name, evidence, confidence, metadata;
\* lifestyle dicts carry type, recommendation, evidence, confidence and no
\* name.  No dict carries a "reason" key.
_search_recommendations(supplement_hits, lifestyle_hits) ==
    LET Supp(h) == [type |-> "supplement", name |-> h.name,
                    confidence |-> h.score, reason |-> Missing]
        Life(score) == [type |-> "lifestyle", name |-> Missing,
                        confidence |-> score, reason |-> Missing]
    IN  Mapped(supplement_hits, Supp) \o Mapped(lifestyle_hits, Life)

Severity(top_score) == IF top_score > HIGH_SEVERITY_ABOVE THEN "high" ELSE "medium"

\* The warnings of one recommendation: medications first, then conditions.
\* med_reply[name] / cond_reply[name] is the store's top score for the pair.
WarningsOf(rec, medications, chronic_conditions, med_reply, cond_reply) ==
    LET Med(med) ==
            IF med_reply[rec.name] # 0
              THEN << [source |-> "medication_" \o med, target |-> rec.name,
                       severity |-> Severity(med_reply[rec.name])] >>
              ELSE <<>>
        Cond(condition) ==
            IF cond_reply[rec.name] # 0
              THEN << [source |-> "condition_" \o condition, target |-> rec.name,
                       severity |-> Severity(cond_reply[rec.name])] >>
              ELSE <<>>
    IN  Flatten(Mapped(medications, Med)) \o Flatten(Mapped(chronic_conditions, Cond))

\* rec['name'] is read inside the two inner loops: a recommendation without
\* a name raises KeyError as soon as there is a medication or a condition.
_analyze_interactions_raises(recommendations, medications, chronic_conditions) ==
    /\ medications \o chronic_conditions # <<>>
    /\ \E i \in 1..Len(recommendations) : recommendations[i].name = Missing

_analyze_interactions(recommendations, medications, chronic_conditions, med_reply, cond_reply) ==
    LET W(rec) == WarningsOf(rec, medications, chronic_conditions,
                             med_reply, cond_reply)
    IN  Flatten(Mapped(recommendations, W))

\* round(x, 2) of x = num/den thousandths, as thousandths; a tie goes to the
\* even hundredth.
Round2(num, den) ==
    LET unit == 10 * den
        q == num \div unit
        r == num % unit
    IN  10 * (IF 2 * r < unit THEN q
              ELSE IF 2 * r > unit THEN q + 1
              ELSE IF q % 2 = 0 THEN q ELSE q + 1)

RECURSIVE SumScores(_)
SumScores(evidence) ==
    IF evidence = <<>> THEN 0
    ELSE Head(evidence).relevance_score + SumScores(Tail(evidence))

\* [e for e in evidence if e.get("type") == rec.get("type")]
RelevantEvidence(rec, evidence) ==
    SelectSeq(evidence, LAMBDA e : e.type # Missing /\ e.type = rec.type)

\* round(min(0.95, base_confidence + evidence_boost * 0.2), 2) for one
\* recommendation, evidence_boost being the mean relevance of the evidence
\* of the recommendation's type.
FinalConfidence(rec, evidence) ==
    LET \* every dict of _search_recommendations carries "confidence", so
        \* the 0.5 default of rec.get is not taken
        base == rec.confidence
        relevant == RelevantEvidence(rec, evidence)
        n == IF relevant = <<>> THEN 1 ELSE Len(relevant)
        \* base + (sum/n) * 0.2 = (5*n*base + sum) / (5*n)
        num == 5 * n * base + SumScores(relevant)
        den == 5 * n
        capped == IF num > CONFIDENCE_CAP * den THEN CONFIDENCE_CAP * den ELSE num
    IN  Round2(capped, den)

_calculate_confidence_levels_raises(recommendations) ==
    \E i \in 1..Len(recommendations) : recommendations[i].name = Missing

\* A dict keyed by name: a later recommendation of the same name overwrites.
_calculate_confidence_levels(recommendations, evidence) ==
    LET names == { recommendations[i].name : i \in 1..Len(recommendations) }
        Last(name) == CHOOSE i \in 1..Len(recommendations) :
                          /\ recommendations[i].name = name
                          /\ \A j \in 1..Len(recommendations) :
                                 recommendations[j].name = name => j <= i
    IN  [name \in names |-> FinalConfidence(recommendations[Last(name)], evidence)]

\* The text of an interaction check names the warning's target and source.
InteractionCheck(warning) ==
    [text |-> "consult", target |-> warning.target, source |-> warning.source]
ChronicCheck == [text |-> "chronic", target |-> "", source |-> ""]
GlucoseCheck == [text |-> "glucose", target |-> "", source |-> ""]

\* Variant: only medication warnings get a check.
_determine_required_checks_medication_only(chronic_conditions, glucose_fasting, interaction_warnings) ==
    LET Check(warning) ==
            IF warning.severity = "high" /\ warning.source = "medication_warfarin"
              THEN <<InteractionCheck(warning)>> ELSE <<>>
    IN  Flatten(Mapped(interaction_warnings, Check))
        \o (IF chronic_conditions # <<>> THEN <<ChronicCheck>> ELSE <<>>)
        \o (IF glucose_fasting > GLUCOSE_LIMIT THEN <<GlucoseCheck>> ELSE <<>>)

_determine_required_checks(chronic_conditions, glucose_fasting, interaction_warnings) ==
    LET Check(warning) == IF warning.severity = "high"
                            THEN <<InteractionCheck(warning)>> ELSE <<>>
    IN  Flatten(Mapped(interaction_warnings, Check))
        \o (IF chronic_conditions # <<>> THEN <<ChronicCheck>> ELSE <<>>)
        \o (IF glucose_fasting > GLUCOSE_LIMIT THEN <<GlucoseCheck>> ELSE <<>>)

\* Recommendation(type=rec["type"], name=rec["name"],
\*                confidence=rec["confidence"], reason=rec["reason"], ...)
RecommendationOf(rec) ==
    [type |-> rec.type, name |-> rec.name, confidence |-> rec.confidence,
     reason |-> rec.reason]
RecommendationOf_raises(rec) ==
    rec.name = Missing \/ rec.reason = Missing

\* failed_lookup is the pair <<source, target>> whose lookup raised inside
\* _analyze_interactions, if one did.
NoLocals ==
    [ risk_factors |-> <<>>, evidence |-> <<>>, recommendations |-> <<>>,
      interaction_warnings |-> <<>>, confidence_levels |-> <<>>,
      required_checks |-> <<>>, failed_lookup |-> None ]

\* Inputs of one run.
RiskFactorLists == { <<>>, <<RiskFactor("obesity", "medium")>> }
MedicationLists == { <<>>, <<"warfarin">> }
ConditionLists == { <<>>, <<"diabetes">> }
GlucoseValues == {90, 110}
LifestyleHitLists == { <<>>, <<700>> }

\* Steps 1-7 of analyze: every search has been answered and the local
\* values are computed, or a step has raised.
analyze_compute(risk_factors, risk_reply, supplement_hits, lifestyle_hits, medications, chronic_conditions, glucose_fasting, med_reply, cond_reply) ==
    /\ an_pc = "idle"
    /\ LET risk_evidence == _search_risk_evidence(risk_factors, risk_reply)
           recommendations == _search_recommendations(supplement_hits, lifestyle_hits)
       IN  IF \/ _analyze_interactions_raises(recommendations, medications,
                                              chronic_conditions)
              \/ _calculate_confidence_levels_raises(recommendations)
             THEN /\ an_pc' = "raised"
                  /\ an' = [NoLocals EXCEPT !.risk_factors = risk_factors,
                                            !.evidence = risk_evidence,
                                            !.recommendations = recommendations]
             ELSE LET warnings == _analyze_interactions(recommendations,
                                      medications, chronic_conditions,
                                      med_reply, cond_reply)
                  IN  /\ an_pc' = "built"
                      /\ an' = [ risk_factors |-> risk_factors,
                                 evidence |-> risk_evidence,
                                 recommendations |-> recommendations,
                                 interaction_warnings |-> warnings,
                                 confidence_levels |->
                                     _calculate_confidence_levels(recommendations,
                                                                  risk_evidence),
                                 required_checks |->
                                     _determine_required_checks(chronic_conditions,
                                         glucose_fasting, warnings),
                                 failed_lookup |-> None ]
    /\ UNCHANGED <<session_vars, proc, an_result, pattern_vars, generator_vars, risk_vars>>

\* An awaited search of the evidence store raises (the store is unavailable):
\* analyze logs the exception and re-raises it.
analyze_search_fails ==
    /\ an_pc = "idle"
    /\ an_pc' = "raised"
    /\ UNCHANGED <<session_vars, proc, an, an_result, pattern_vars, generator_vars, risk_vars>>

\* The sources of the lookups _analyze_interactions makes for one
\* recommendation, in the order it makes them.
LookupSources(medications, chronic_conditions) ==
    Mapped(medications, LAMBDA med : "medication_" \o med)
    \o Mapped(chronic_conditions, LAMBDA condition : "condition_" \o condition)

\* Step 4 of analyze when the awaited lookup of one pair raises: nothing in
\* _analyze_interactions catches it, so the warnings list built so far is
\* dropped with the frame, and analyze logs the exception and re-raises it.
\* i is the recommendation and k the lookup of it that raises; the lookups
\* made before read rec['name'] without error.
analyze_lookup_fails(risk_factors, risk_reply, supplement_hits, medications, chronic_conditions, i, k) ==
    /\ an_pc = "idle"
    /\ LET recommendations == _search_recommendations(supplement_hits, <<>>)
           sources == LookupSources(medications, chronic_conditions)
       IN  /\ i \in 1..Len(recommendations)
           /\ k \in 1..Len(sources)
           /\ an_pc' = "raised"
           /\ an' = [NoLocals EXCEPT
                        !.risk_factors = risk_factors,
                        !.evidence = _search_risk_evidence(risk_factors, risk_reply),
                        !.recommendations = recommendations,
                        !.failed_lookup =
                            Some(<<sources[k], recommendations[i].name>>)]
    /\ UNCHANGED <<session_vars, proc, an_result, pattern_vars, generator_vars, risk_vars>>

\* Step 8 of analyze: the AnalysisResult is built and returned, or building
\* a Recommendation raises KeyError.
analyze_return ==
    /\ an_pc = "built"
    /\ IF \E i \in 1..Len(an.recommendations) :
              RecommendationOf_raises(an.recommendations[i])
         THEN /\ an_pc' = "raised"
              /\ UNCHANGED an_result
         ELSE /\ an_pc' = "returned"
              /\ an_result' = Some(
                    [ primary_concerns |-> an.risk_factors,
                      recommendations |-> Mapped(an.recommendations, RecommendationOf),
                      interaction_warnings |-> an.interaction_warnings,
                      required_checks |-> an.required_checks,
                      evidence |-> an.evidence,
                      confidence_levels |-> an.confidence_levels ])
    /\ UNCHANGED <<session_vars, proc, an, pattern_vars, generator_vars, risk_vars>>

\* create_session of api/routes/rag.py: session.analysis_results =
\* initial_analysis, and analyze's frame is gone; an exception of analyze
\* ends the request instead.
store_initial_analysis ==
    /\ an_pc \in {"returned", "raised"}
    /\ an_pc' = "stored"
    /\ an' = NoLocals
    /\ an_result' = None
    /\ IF an_pc = "returned"
         THEN analysis_results' = an_result
         ELSE UNCHANGED analysis_results
    /\ UNCHANGED <<live, status, current_step, answers, current_questions, proc,
                   pattern_vars, generator_vars, risk_vars>>

(***************************************************************************)
(* QuestionGenerator (core/analysis/question_generator.py).                *)
(* A generated Question is [id, context, priority, interaction_check].     *)
(***************************************************************************)
\* Values str(uuid.uuid4()) may give: each call draws one at random.
Uuids == {"uuid_a", "uuid_b"}

\* session.health_data as generate_questions reads it: the list
\* medical_history.chronic_conditions and the lifestyle dict (None for a
\* missing or empty one; a key that is absent reads as 0).
Lifestyle(exercise_frequency, sleep_hours, stress_level) ==
    [ exercise_frequency |-> exercise_frequency, sleep_hours |-> sleep_hours,
      stress_level |-> stress_level ]
HealthDataArgs ==
    [ chronic_conditions : ConditionLists,
      lifestyle : { None, Some(Lifestyle(1, 8, 2)), Some(Lifestyle(5, 5, 5)) } ]

EXERCISE_BELOW == 3
SLEEP_BELOW == 7
STRESS_ABOVE == 3

GeneratedQuestion(id, prefix, rest, priority, interaction_check) ==
    [ id |-> id, context |-> <<prefix, rest>>, priority |-> priority,
      interaction_check |-> interaction_check ]

\* warning["source"]: the warnings of an AnalysisResult are
\* InteractionWarning models, which cannot be subscripted, so the loop
\* raises TypeError on its first warning.
_generate_interaction_questions_raises(warnings) == warnings # <<>>

\* The question contexts of _generate_condition_questions: one per condition
\* whose search gave documents (reply # 0).
_generate_condition_questions(conditions, reply) ==
    LET Q(condition) ==
            IF reply[condition] # 0
              THEN << <<"condition", "history_" \o condition>> >>
              ELSE <<>>
    IN  Flatten(Mapped(conditions, Q))

_generate_lifestyle_questions(lifestyle) ==
    (IF lifestyle.exercise_frequency < EXERCISE_BELOW
       THEN << <<"lifestyle", "exercise_barrier">> >> ELSE <<>>)
    \o (IF lifestyle.sleep_hours < SLEEP_BELOW
          THEN << <<"lifestyle", "sleep_quality">> >> ELSE <<>>)
    \o (IF lifestyle.stress_level > STRESS_ABOVE
          THEN << <<"lifestyle", "stress_management">> >> ELSE <<>>)

\* sorted(questions, key=priority, reverse=True): stable, priorities 2 and 1.
SortedByPriority(questions) ==
    SelectSeq(questions, LAMBDA q : q.priority = 2)
    \o SelectSeq(questions, LAMBDA q : q.priority = 1)

\* The contexts of the questions one call builds for a session without
\* interaction warnings, in the order they are appended.
QuestionContexts(health_data, reply) ==
    (IF health_data.chronic_conditions # <<>>
       THEN _generate_condition_questions(health_data.chronic_conditions, reply)
       ELSE <<>>)
    \o (IF health_data.lifestyle # None
          THEN _generate_lifestyle_questions(health_data.lifestyle[1])
          ELSE <<>>)

\* One call generate_questions(session) on the session as it is now, the
\* session's health_data being an argument of the model.  reply is the
\* store's answer per condition; every question gets the value uuid4 gives
\* when it is built.
generate_questions(health_data, reply) ==
    /\ Len(generated) < MaxGenerate
    /\ LET warnings == IF analysis_results = None THEN <<>>
                       ELSE analysis_results[1].interaction_warnings
           contexts == QuestionContexts(health_data, reply)
           Call(outcome, qs) ==
               [ health_data |-> health_data, reply |-> reply,
                 analysis_results |-> analysis_results, answers |-> answers,
                 outcome |-> outcome, questions |-> qs ]
       IN  IF _generate_interaction_questions_raises(warnings)
             THEN generated' = Append(generated, Call("TypeError", <<>>))
             ELSE \E ids \in [1..Len(contexts) -> Uuids] :
                    generated' = Append(generated,
                        Call("returned",
                             SortedByPriority(
                                 [ i \in 1..Len(contexts) |->
                                     GeneratedQuestion(ids[i], contexts[i][1],
                                                       contexts[i][2], 1, FALSE) ])))
    /\ UNCHANGED <<session_vars, proc, analyzer_vars, pattern_vars, risk_vars>>

(***************************************************************************)
(* HealthDataAnalyzer (core/analysis/client_health_analyzer.py).           *)
(* A metric of the snapshot is Optional.  bmi and its thresholds are in    *)
(* tenths (18.5 = 185).  A configured threshold is the text                *)
(* <<comparator, bound>>, as in ">30".                                     *)
(***************************************************************************)
\* thresholds[condition]['values'][key], written "condition.key".
ThresholdKeys ==
    { "obesity.bmi", "underweight.bmi", "hypertension.systolic",
      "hypertension.diastolic", "hypercholesterolemia.total",
      "elevated_enzymes.ast", "elevated_enzymes.alt",
      "sedentary.exercise_frequency" }

\* The bounds the code takes when the table holds none.
DEFAULT_OBESITY_BMI == 300          \* '30'
DEFAULT_UNDERWEIGHT_BMI == 185      \* '18.5'
DEFAULT_SYSTOLIC == 140
DEFAULT_DIASTOLIC == 90
DEFAULT_TOTAL_CHOLESTEROL == 240
DEFAULT_AST == 40
DEFAULT_ALT == 40
DEFAULT_EXERCISE_FREQUENCY == 3

BMI_MARGIN == 50                    \* obesity_threshold + 5
SYSTOLIC_MARGIN == 20
CHOLESTEROL_MARGIN == 60
ENZYME_FACTOR == 2

\* The table lines 50-59 build from CONFIG.get_health_keywords(): per key
\* the configured text, or None for a condition without 'thresholds'.
NoThresholds == [key \in ThresholdKeys |-> None]
AllThresholds ==
    [key \in ThresholdKeys |->
        CASE key = "obesity.bmi" -> Some(<<">", 250>>)
          [] key = "underweight.bmi" -> Some(<<"<", 185>>)
          [] key = "hypertension.systolic" -> Some(<<">", 130>>)
          [] key = "hypertension.diastolic" -> Some(<<">", 85>>)
          [] key = "hypercholesterolemia.total" -> Some(<<">", 200>>)
          [] key = "elevated_enzymes.ast" -> Some(<<">", 40>>)
          [] key = "elevated_enzymes.alt" -> Some(<<">", 40>>)
          [] OTHER -> Some(<<"<", 3>>)]
\* What the name CONFIG gives when analyze_risk_factors reads it: the module
\* neither defines nor imports it, so the name is unbound (None) unless the
\* module's namespace has been given a configuration from outside.
ConfigArgs == { None, Some(NoThresholds), Some(AllThresholds) }

HealthSnapshots ==
    [ bmi : {None, Some(170), Some(270), Some(320), Some(360)},
      systolic_bp : {None, Some(150)},
      diastolic_bp : {None, Some(80)},
      total_cholesterol : {None, Some(250), Some(310)},
      sgotast : {None, Some(50)},
      sgptalt : {None, Some(90)},
      exercise_frequency : {None, Some(0), Some(5)} ]

\* float(thresholds.get(c, {}).get('values', {}).get(k, default).strip(ch)):
\* the bound of the configured text, or the default.
ThresholdValue(thresholds, key, default) ==
    IF thresholds[key] = None THEN default ELSE thresholds[key][1][2]

\* `if value:` of an Optional number.
Truthy(value) == value # None /\ value[1] # 0

EmittedRisk(type, severity, threshold) ==
    [type |-> type, severity |-> severity, threshold |-> threshold]

analyze_risk_factors(health_data, thresholds) ==
    LET obesity_threshold ==
            ThresholdValue(thresholds, "obesity.bmi", DEFAULT_OBESITY_BMI)
        underweight_threshold ==
            ThresholdValue(thresholds, "underweight.bmi", DEFAULT_UNDERWEIGHT_BMI)
        systolic_threshold ==
            ThresholdValue(thresholds, "hypertension.systolic", DEFAULT_SYSTOLIC)
        diastolic_threshold ==
            ThresholdValue(thresholds, "hypertension.diastolic", DEFAULT_DIASTOLIC)
        chol_threshold ==
            ThresholdValue(thresholds, "hypercholesterolemia.total",
                           DEFAULT_TOTAL_CHOLESTEROL)
        ast_threshold ==
            ThresholdValue(thresholds, "elevated_enzymes.ast", DEFAULT_AST)
        alt_threshold ==
            ThresholdValue(thresholds, "elevated_enzymes.alt", DEFAULT_ALT)
        exercise_threshold ==
            ThresholdValue(thresholds, "sedentary.exercise_frequency",
                           DEFAULT_EXERCISE_FREQUENCY)
        bmi == health_data.bmi
        ast == health_data.sgotast
        alt == health_data.sgptalt
        AstAbove(bound) == Truthy(ast) /\ ast[1] > bound
        AltAbove(bound) == Truthy(alt) /\ alt[1] > bound
    IN  (IF Truthy(bmi) /\ bmi[1] >= obesity_threshold
           THEN << EmittedRisk("obesity",
                       IF bmi[1] >= obesity_threshold + BMI_MARGIN
                         THEN "high" ELSE "medium",
                       <<obesity_threshold>>) >>
         ELSE IF Truthy(bmi) /\ bmi[1] < underweight_threshold
           THEN << EmittedRisk("underweight", "medium", <<underweight_threshold>>) >>
           ELSE <<>>)
        \o (IF /\ Truthy(health_data.systolic_bp)
               /\ Truthy(health_data.diastolic_bp)
               /\ \/ health_data.systolic_bp[1] >= systolic_threshold
                  \/ health_data.diastolic_bp[1] >= diastolic_threshold
              THEN << EmittedRisk("hypertension",
                          IF health_data.systolic_bp[1]
                                 >= systolic_threshold + SYSTOLIC_MARGIN
                            THEN "high" ELSE "medium",
                          <<systolic_threshold, diastolic_threshold>>) >>
              ELSE <<>>)
        \o (IF /\ Truthy(health_data.total_cholesterol)
               /\ health_data.total_cholesterol[1] > chol_threshold
              THEN << EmittedRisk("high_cholesterol",
                          IF health_data.total_cholesterol[1]
                                 > chol_threshold + CHOLESTEROL_MARGIN
                            THEN "high" ELSE "medium",
                          <<chol_threshold>>) >>
              ELSE <<>>)
        \o (IF AstAbove(ast_threshold) \/ AltAbove(alt_threshold)
              THEN << EmittedRisk("liver_function_abnormal",
                          IF \/ AstAbove(ast_threshold * ENZYME_FACTOR)
                             \/ AltAbove(alt_threshold * ENZYME_FACTOR)
                            THEN "high" ELSE "medium",
                          <<ast_threshold, alt_threshold>>) >>
              ELSE <<>>)
        \o (IF /\ health_data.exercise_frequency # None
               /\ health_data.exercise_frequency[1] < exercise_threshold
              THEN << EmittedRisk("sedentary_lifestyle", "medium",
                                  <<exercise_threshold>>) >>
              ELSE <<>>)

\* One call analyze_risk_factors(health_data): line 47 reads the name CONFIG
\* and raises NameError when it is unbound, before any metric is looked at.
analyze_risk(health_data, config) ==
    /\ risk_call = None
    /\ risk_call' = Some(
          [ health_data |-> health_data, config |-> config,
            outcome |-> IF config = None THEN "NameError" ELSE "returned",
            risk_factors |-> IF config = None THEN <<>>
                             ELSE analyze_risk_factors(health_data, config[1]) ])
    /\ UNCHANGED <<session_vars, proc, analyzer_vars, pattern_vars, generator_vars>>

(***************************************************************************)
(* PatternService (core/services/pattern_service.py).                      *)
(* A confidence of a stored pattern is the exact fraction <<num, den>>;    *)
(* observed confidences are hundredths.  A context value is <<"scalar", v>>*)
(* or <<"list", v1, ..., vn>>.                                             *)
(***************************************************************************)
Buckets == {"supplement_interactions", "health_conditions",
            "medication_interactions", "temporal_patterns"}
EmptyPatterns == [b \in Buckets |-> <<>>]

confidence_threshold == 7      \* 0.7, in tenths
ENTITY_WEIGHT == 4             \* 0.4
EFFECT_WEIGHT == 4             \* 0.4
CONTEXT_WEIGHT == 2            \* 0.2

\* Observations handed to learn_from_interaction: two entity lists that
\* overlap by half, with and without a context, at two confidences; one
\* with the opposite effect, one without entities, one with another context
\* value, one whose context value is a list, the same interaction
\* under a second type, and one whose interaction_type
\* ("supplement_interaction") is no key of patterns.
EntitySets == { {"vitamin_d"}, {"vitamin_d", "calcium"} }
ObsConfidences == {40, 85}
Scalar(v) == <<"scalar", v>>
ObsContexts == { <<>>, [k \in {"age"} |-> Scalar("senior")] }
Observation(type, entities, effect, confidence, context) ==
    [ interaction_type |-> type, entities |-> entities, effect |-> effect,
      confidence |-> confidence, context |-> context ]
Observations ==
    { Observation("supplement_interactions", e, "absorption_up", c, x) :
          e \in EntitySets, c \in ObsConfidences, x \in ObsContexts }
    \cup { Observation("medication_interactions", {"vitamin_d"},
                       "absorption_up", c, <<>>) : c \in ObsConfidences }
    \cup { Observation("supplement_interactions", {"vitamin_d"},
                       "absorption_down", 40, <<>>),
           Observation("supplement_interactions", {}, "absorption_up", 40, <<>>),
           Observation("supplement_interactions", {"vitamin_d"}, "absorption_up",
                       85, [k \in {"age"} |-> Scalar("adult")]),
           Observation("supplement_interactions", {"vitamin_d"}, "absorption_up",
                       85, [k \in {"age"} |-> <<"list", "senior", "adult">>]),
           Observation("supplement_interaction", {"vitamin_d"},
                       "absorption_up", 85, <<>>) }

RECURSIVE GCD(_, _)
GCD(a, b) == IF b = 0 THEN a ELSE GCD(b, a % b)
Fraction(num, den) == LET g == GCD(num, den) IN <<num \div g, den \div g>>
FractionLess(a, b) == a[1] * b[2] < b[1] * a[2]

_extract_pattern(data) ==
    [ type |-> data.interaction_type, entities |-> data.entities,
      effect |-> data.effect, confidence |-> data.confidence,
      context |-> data.context ]

\* <<matching_values, len(all_keys)>>; 0.0 when there is no key at all.
_calculate_context_similarity(context1, context2) ==
    LET all_keys == DOMAIN context1 \cup DOMAIN context2
        matching_keys == DOMAIN context1 \cap DOMAIN context2
        matching_values ==
            Cardinality({ k \in matching_keys : context1[k] = context2[k] })
    IN  IF all_keys = {} THEN <<0, 1>>
        ELSE <<matching_values, Cardinality(all_keys)>>

\* The entity term divides by the size of the union of the two entity sets.
_calculate_similarity_raises(pattern1, pattern2) ==
    pattern1.entities \cup pattern2.entities = {}

\* Variant: only the full score 1.0 counts as similar.
SimilarEnough_full_score(pattern1, pattern2) ==
    /\ pattern1.entities = pattern2.entities
    /\ pattern1.effect = pattern2.effect
    /\ LET cs == _calculate_context_similarity(pattern1.context, pattern2.context)
       IN  cs[1] = cs[2]

\* 0.4 * |e1 & e2| / |e1 | e2| + 0.4 * [effects equal] + 0.2 * context
\* similarity >= confidence_threshold, with the denominators cleared.
SimilarEnough(pattern1, pattern2) ==
    LET ei == Cardinality(pattern1.entities \cap pattern2.entities)
        eu == Cardinality(pattern1.entities \cup pattern2.entities)
        ef == IF pattern1.effect = pattern2.effect THEN 1 ELSE 0
        cs == _calculate_context_similarity(pattern1.context, pattern2.context)
    IN  ENTITY_WEIGHT * ei * cs[2] + EFFECT_WEIGHT * ef * eu * cs[2]
            + CONTEXT_WEIGHT * cs[1] * eu
          >= confidence_threshold * eu * cs[2]

\* Variant: every bucket is scanned.
Candidates_all_buckets(pattern_type) ==
    UNION { { <<b, i>> : i \in 1..Len(patterns[b]) } : b \in Buckets }

\* self.patterns[pattern_type].values(): references <<bucket, position>>.
Candidates(pattern_type) ==
    { <<pattern_type, i>> : i \in 1..Len(patterns[pattern_type]) }

PatternAt(ref) == patterns[ref[1]][ref[2]]

\* Variant: sorted(...) without reverse=True, the lowest confidence first.
_find_similar_patterns_ascending(pattern) ==
    IF pattern.type \notin Buckets
      THEN [error |-> "KeyError", compared |-> {}, first |-> <<>>]
    ELSE LET refs == Candidates(pattern.type)
         IN  IF \E r \in refs : _calculate_similarity_raises(pattern, PatternAt(r))
               THEN [error |-> "ZeroDivisionError",
                     compared |-> { PatternAt(r).type : r \in refs },
                     first |-> <<>>]
             ELSE LET similar == { r \in refs : SimilarEnough(pattern, PatternAt(r)) }
                      Before(r1, r2) ==
                          \/ FractionLess(PatternAt(r1).confidence,
                                          PatternAt(r2).confidence)
                          \/ /\ PatternAt(r1).confidence = PatternAt(r2).confidence
                             /\ r1[2] <= r2[2]
                  IN  [error |-> "",
                       compared |-> { PatternAt(r).type : r \in refs },
                       first |-> IF similar = {} THEN <<>>
                                 ELSE CHOOSE r \in similar :
                                          \A r2 \in similar : Before(r, r2)]

\* The stored patterns the observation is compared with, and the outcome of
\* _find_similar_patterns: an error, or similar_patterns[0] (<<>> when the
\* list is empty).  sorted(..., reverse=True) is stable, so among patterns
\* of equal confidence the one stored first comes first.
_find_similar_patterns(pattern) ==
    IF pattern.type \notin Buckets
      THEN [error |-> "KeyError", compared |-> {}, first |-> <<>>]
    ELSE LET refs == Candidates(pattern.type)
         IN  IF \E r \in refs : _calculate_similarity_raises(pattern, PatternAt(r))
               THEN [error |-> "ZeroDivisionError",
                     compared |-> { PatternAt(r).type : r \in refs },
                     first |-> <<>>]
             ELSE LET similar == { r \in refs : SimilarEnough(pattern, PatternAt(r)) }
                      Before(r1, r2) ==
                          \/ FractionLess(PatternAt(r2).confidence,
                                          PatternAt(r1).confidence)
                          \/ /\ PatternAt(r1).confidence = PatternAt(r2).confidence
                             /\ r1[2] <= r2[2]
                  IN  [error |-> "",
                       compared |-> { PatternAt(r).type : r \in refs },
                       first |-> IF similar = {} THEN <<>>
                                 ELSE CHOOSE r \in similar :
                                          \A r2 \in similar : Before(r, r2)]

\* Variant: the plain average of the old and the new confidence.
StrengthenedConfidence_plain_average(existing, new) ==
    Fraction(existing.confidence[1] + new.confidence * existing.confidence[2],
             existing.confidence[2] * 2)

\* (existing.confidence * existing.frequency + new.confidence)
\*     / (existing.frequency + 1)
StrengthenedConfidence(existing, new) ==
    Fraction(existing.confidence[1] * existing.frequency
                 + new.confidence * existing.confidence[2],
             existing.confidence[2] * (existing.frequency + 1))

\* A list value is <<"list", v1, ..., vn>>; a list held inside a list is
\* written between the items "[" and "]".
IsList(value) == value[1] = "list"
HoldsList(value) == \E i \in 2..Len(value) : value[i] = "["

\* list(set(items)): the distinct items, in the order the set yields them;
\* Python leaves that order open, so it is an argument.
ValueOrders == { <<"senior", "adult">>, <<"adult", "senior">> }
Distinct(items, order) ==
    SelectSeq(order, LAMBDA v : \E i \in 1..Len(items) : items[i] = v)

\* set(merged[key] + [value]) hashes every item: a list among them (the
\* incoming value, or one stored earlier) raises TypeError.
_merge_contexts_raises(context1, context2) ==
    \E key \in DOMAIN context1 \cap DOMAIN context2 :
        IsList(context1[key]) /\ (IsList(context2[key]) \/ HoldsList(context1[key]))

_merge_contexts(context1, context2, order) ==
    [ key \in DOMAIN context1 \cup DOMAIN context2 |->
        IF key \notin DOMAIN context2 THEN context1[key]
        ELSE IF key \notin DOMAIN context1 THEN context2[key]
        ELSE IF IsList(context1[key])
          THEN <<"list">> \o Distinct(Tail(context1[key]) \o <<context2[key][2]>>,
                                      order)
        ELSE IF IsList(context2[key])
          THEN <<"list", context1[key][2], "[">> \o Tail(context2[key]) \o <<"]">>
          ELSE <<"list", context1[key][2], context2[key][2]>> ]

\* The dict _add_new_pattern stores under id "<type>_<len(bucket)>".
NewPattern(pattern) ==
    [ type |-> pattern.type, entities |-> pattern.entities,
      effect |-> pattern.effect, confidence |-> <<pattern.confidence, 1>>,
      context |-> pattern.context, frequency |-> 1 ]

(***************************************************************************)
(* learn_from_interaction as a coroutine on the event loop.  A coroutine   *)
(* keeps the loop until it awaits something that is not ready; the awaits  *)
(* of learn_from_interaction are on coroutines of PatternService that      *)
(* await nothing, so no step of it suspends.                               *)
(*   idle -> called -> extracted -> found -> confidence -> frequency       *)
(*        -> stored -> done                                                *)
(***************************************************************************)
\* The steps are named "extract", "find", "confidence", "frequency",
\* "context", "add" and "feedback".

\* Variant: the loop is given up between the statements of
\* _strengthen_pattern.
Suspends_inside_strengthen(step) == step \in {"confidence", "frequency"}

Suspends(step) == FALSE

NoPattern == [ type |-> "", entities |-> {}, effect |-> "", confidence |-> 0,
               context |-> <<>> ]
LearnState(pc, pattern, target, compared) ==
    [ pc |-> pc, pattern |-> pattern, target |-> target, compared |-> compared ]
IdleLearn == LearnState("idle", NoPattern, <<>>, {})

MayRun(t) == running \in {0, t}
\* Who holds the loop after task t made the step and reached next_pc.
Holder(t, step, next_pc) ==
    IF next_pc \in {"done", "raised"} \/ Suspends(step) THEN 0 ELSE t

\* PatternService.initialize: every bucket is emptied.
initialize ==
    /\ running = 0
    /\ patterns' = EmptyPatterns
    /\ observed' = EmptyPatterns
    /\ UNCHANGED <<session_vars, proc, analyzer_vars, generator_vars, risk_vars, feedback_history, learn,
                   running, repeated>>

\* Bookkeeping: the calls so far were all given `data` (same), or differed.
Differed == [same |-> FALSE, data |-> {}]
Repeated(so_far, data) ==
    IF so_far = None \/ so_far = Some([same |-> TRUE, data |-> {data}])
      THEN Some([same |-> TRUE, data |-> {data}])
      ELSE Some(Differed)

\* A caller creates the coroutine (asyncio task) of one learn_from_interaction.
learn_call(t) ==
    /\ learn[t].pc = "idle"
    /\ \A u \in 1..(t - 1) : learn[u].pc # "idle"
    /\ learn' = [learn EXCEPT ![t].pc = "called"]
    /\ UNCHANGED <<session_vars, proc, analyzer_vars, generator_vars, risk_vars, patterns,
                   feedback_history, running, observed, repeated>>

\* 1. pattern = await self._extract_pattern(data)
learn_extract(t, data) ==
    /\ learn[t].pc = "called"
    /\ MayRun(t)
    /\ learn' = [learn EXCEPT ![t] =
                    LearnState("extracted", _extract_pattern(data), <<>>, {})]
    /\ running' = Holder(t, "extract", "extracted")
    /\ repeated' = Repeated(repeated, data)
    /\ UNCHANGED <<session_vars, proc, analyzer_vars, generator_vars, risk_vars, patterns,
                   feedback_history, observed>>

\* 2. similar_patterns = self._find_similar_patterns(pattern); an exception
\* is logged and re-raised.
learn_find(t) ==
    /\ learn[t].pc = "extracted"
    /\ MayRun(t)
    /\ LET found == _find_similar_patterns(learn[t].pattern)
           next_pc == IF found.error # "" THEN "raised" ELSE "found"
       IN  /\ learn' = [learn EXCEPT ![t].pc = next_pc,
                                     ![t].target = found.first,
                                     ![t].compared = found.compared]
           /\ running' = Holder(t, "find", next_pc)
    /\ UNCHANGED <<session_vars, proc, analyzer_vars, generator_vars, risk_vars, patterns,
                   feedback_history, observed, repeated>>

\* 3a. _strengthen_pattern, first statement: existing["confidence"] = ...
strengthen_confidence(t) ==
    /\ learn[t].pc = "found"
    /\ learn[t].target # <<>>
    /\ MayRun(t)
    /\ LET b == learn[t].target[1]
           i == learn[t].target[2]
       IN  /\ patterns' = [patterns EXCEPT ![b][i].confidence =
                              StrengthenedConfidence(patterns[b][i], learn[t].pattern)]
           /\ observed' = [observed EXCEPT
                              ![b][i].sum = @ + learn[t].pattern.confidence,
                              ![b][i].count = @ + 1]
    /\ learn' = [learn EXCEPT ![t].pc = "confidence"]
    /\ running' = Holder(t, "confidence", "confidence")
    /\ UNCHANGED <<session_vars, proc, analyzer_vars, generator_vars, risk_vars, feedback_history, repeated>>

\* 3b. second statement: existing["frequency"] += 1
strengthen_frequency(t) ==
    /\ learn[t].pc = "confidence"
    /\ MayRun(t)
    /\ LET b == learn[t].target[1]
           i == learn[t].target[2]
       IN  patterns' = [patterns EXCEPT ![b][i].frequency = @ + 1]
    /\ learn' = [learn EXCEPT ![t].pc = "frequency"]
    /\ running' = Holder(t, "frequency", "frequency")
    /\ UNCHANGED <<session_vars, proc, analyzer_vars, generator_vars, risk_vars, feedback_history, observed, repeated>>

\* 3c. third statement: existing["context"] = self._merge_contexts(...); a
\* TypeError leaves _strengthen_pattern and learn_from_interaction, which
\* logs and re-raises it.
strengthen_context(t) ==
    /\ learn[t].pc = "frequency"
    /\ MayRun(t)
    /\ LET b == learn[t].target[1]
           i == learn[t].target[2]
       IN  IF _merge_contexts_raises(patterns[b][i].context, learn[t].pattern.context)
             THEN /\ UNCHANGED patterns
                  /\ learn' = [learn EXCEPT ![t].pc = "raised"]
                  /\ running' = Holder(t, "context", "raised")
             ELSE /\ \E order \in ValueOrders :
                        patterns' = [patterns EXCEPT ![b][i].context =
                            _merge_contexts(patterns[b][i].context,
                                            learn[t].pattern.context, order)]
                  /\ learn' = [learn EXCEPT ![t].pc = "stored"]
                  /\ running' = Holder(t, "context", "stored")
    /\ UNCHANGED <<session_vars, proc, analyzer_vars, generator_vars, risk_vars, feedback_history, observed, repeated>>

\* 3'. no similar pattern: await self._add_new_pattern(pattern)
add_new_pattern(t) ==
    /\ learn[t].pc = "found"
    /\ learn[t].target = <<>>
    /\ MayRun(t)
    /\ LET b == learn[t].pattern.type
       IN  /\ patterns' = [patterns EXCEPT ![b] = Append(@, NewPattern(learn[t].pattern))]
           /\ observed' = [observed EXCEPT ![b] =
                              Append(@, [sum |-> learn[t].pattern.confidence,
                                         count |-> 1])]
    /\ learn' = [learn EXCEPT ![t].pc = "stored"]
    /\ running' = Holder(t, "add", "stored")
    /\ UNCHANGED <<session_vars, proc, analyzer_vars, generator_vars, risk_vars, feedback_history, repeated>>

\* 4. self._record_feedback(pattern); the coroutine returns and its frame is
\* released.
record_feedback(t) ==
    /\ learn[t].pc = "stored"
    /\ MayRun(t)
    /\ feedback_history' = feedback_history + 1
    /\ learn' = [learn EXCEPT ![t] = LearnState("done", NoPattern, <<>>, {})]
    /\ running' = Holder(t, "feedback", "done")
    /\ UNCHANGED <<session_vars, proc, analyzer_vars, generator_vars, risk_vars, patterns, observed, repeated>>

(***************************************************************************)
(* Initial state: one Session as Session.create_new builds it, registered  *)
(* with the manager; no submission in flight.                              *)
(***************************************************************************)
IdleProc == ProcState("idle", "", None, NoAnalysis, None, <<>>, None)

Init ==
    /\ live = TRUE
    /\ status = "created"
    /\ current_step = 0
    /\ answers = <<>>
    /\ current_questions = <<>>
    /\ analysis_results = None
    /\ proc = [t \in 1..MaxTasks |-> IdleProc]
    /\ an_pc = "idle"
    /\ an = NoLocals
    /\ an_result = None
    /\ patterns = EmptyPatterns
    /\ feedback_history = 0
    /\ learn = [t \in 1..MaxCalls |-> IdleLearn]
    /\ running = 0
    /\ observed = EmptyPatterns
    /\ repeated = None
    /\ generated = <<>>
    /\ risk_call = None

Next ==
    \/ \E s \in StatusArgs : update_status(s)
    \/ \E q \in LifecycleAnswerIds : add_answer(q)
    \/ \E r \in ResultArgs : update_analysis(r)
    \/ \E qs \in QuestionListArgs : update_questions(qs)
    \/ \E s \in Statuses, n \in 0..MaxStepArg : update_session_status(s, n)
    \/ \E r \in ResultArgs : add_analysis_result(r)
    \/ \E qs \in QuestionListArgs : add_questions(qs)
    \/ \E q \in LifecycleAnswerIds : manager_add_answer(q)
    \/ cleanup_session

Spec == Init /\ [][Next]_vars

(***************************************************************************)
(* Answer submissions: the session is prepared (initial analysis, question *)
(* list) while no submission runs, then up to MaxTasks answers are         *)
(* processed as concurrent coroutines.                                     *)
(***************************************************************************)
AllQuestions ==
    << Question("q1", "health_risk", "obesity"),
       Question("q2", "lifestyle", "exercise_barrier"),
       Question("q3", "medication", "interaction_warfarin"),
       Question("q4", "condition", "history_diabetes") >>

AllIdle == \A t \in 1..MaxTasks : proc[t].pc = "idle"

\* An AnalysisResult holding a Recommendation model, as its constructor
\* builds it.
RecommendedResult ==
    [EmptyResult EXCEPT !.recommendations =
        << [type |-> "supplement", name |-> "Omega-3", confidence |-> 900,
            reason |-> "evidence"] >>]

SubmitNext ==
    \/ AllIdle /\ \E r \in ResultArgs \cup {RecommendedResult} : update_analysis(r)
    \/ AllIdle /\ update_questions(AllQuestions)
    \/ \E t \in 1..MaxTasks, q \in AnswerIds : process_answer_begin(t, q)
    \/ \E t \in 1..MaxTasks, reply \in StoreReplies : process_answer_analyzed(t, reply)
    \/ \E t \in 1..MaxTasks, reply \in StoreReplies : process_answer_evidence(t, reply)
    \/ \E t \in 1..MaxTasks : process_answer_raise(t)
    \/ \E t \in 1..MaxTasks : install_result(t)

SubmitSpec == Init /\ [][SubmitNext]_vars

(***************************************************************************)
(* One analysis pass of create_session followed by answer submissions on   *)
(* the session it produced.                                                *)
(***************************************************************************)
AnalyzeNext ==
    \/ an_pc = "idle" /\
       \E risk_factors \in RiskFactorLists, risk_reply \in StoreReplies,
          supplement_hits \in SupplementHitLists,
          lifestyle_hits \in LifestyleHitLists,
          medications \in MedicationLists,
          chronic_conditions \in ConditionLists,
          glucose_fasting \in GlucoseValues,
          med_reply \in [SupplementNames -> LookupReplies],
          cond_reply \in [SupplementNames -> LookupReplies] :
            analyze_compute(risk_factors, risk_reply, supplement_hits,
                            lifestyle_hits, medications, chronic_conditions,
                            glucose_fasting, med_reply, cond_reply)
    \/ analyze_search_fails
    \/ \E risk_factors \in RiskFactorLists, risk_reply \in StoreReplies,
          supplement_hits \in SupplementHitLists,
          medications \in MedicationLists,
          chronic_conditions \in ConditionLists :
            \E i \in 1..Len(supplement_hits),
               k \in 1..Len(medications \o chronic_conditions) :
                analyze_lookup_fails(risk_factors, risk_reply, supplement_hits,
                                     medications, chronic_conditions, i, k)
    \/ analyze_return
    \/ store_initial_analysis
    \/ an_pc = "stored" /\ AllIdle /\ update_questions(AllQuestions)
    \/ \E t \in 1..MaxTasks, q \in AnswerIds :
          an_pc = "stored" /\ process_answer_begin(t, q)
    \/ \E t \in 1..MaxTasks, reply \in StoreReplies : process_answer_analyzed(t, reply)
    \/ \E t \in 1..MaxTasks, reply \in StoreReplies : process_answer_evidence(t, reply)
    \/ \E t \in 1..MaxTasks : process_answer_raise(t)
    \/ \E t \in 1..MaxTasks : install_result(t)

AnalyzeSpec == Init /\ [][AnalyzeNext]_vars

(***************************************************************************)
(* The pattern store: initialized at start-up, then up to MaxCalls         *)
(* learn_from_interaction calls, created and run in any order.             *)
(***************************************************************************)
NoCallYet == \A t \in 1..MaxCalls : learn[t].pc = "idle"

PatternNext ==
    \/ NoCallYet /\ initialize
    \/ \E t \in 1..MaxCalls : learn_call(t)
    \/ \E t \in 1..MaxCalls :
          learn[t].pc = "called" /\ MayRun(t) /\
          \E data \in Observations : learn_extract(t, data)
    \/ \E t \in 1..MaxCalls : learn_find(t)
    \/ \E t \in 1..MaxCalls : strengthen_confidence(t)
    \/ \E t \in 1..MaxCalls : strengthen_frequency(t)
    \/ \E t \in 1..MaxCalls : strengthen_context(t)
    \/ \E t \in 1..MaxCalls : add_new_pattern(t)
    \/ \E t \in 1..MaxCalls : record_feedback(t)

PatternSpec == Init /\ [][PatternNext]_vars

(***************************************************************************)
(* The pattern store with initialize as an operation like the others: it   *)
(* is a public coroutine of PatternService and may be awaited whenever the *)
(* event loop is free.                                                     *)
(***************************************************************************)
StoreNext ==
    \/ initialize
    \/ PatternNext

StoreSpec == Init /\ [][StoreNext]_vars

(***************************************************************************)
(* The Risk Analyzer applied to one snapshot.                              *)
(***************************************************************************)
RiskNext ==
    \E health_data \in HealthSnapshots, config \in ConfigArgs :
        analyze_risk(health_data, config)

RiskSpec == Init /\ [][RiskNext]_vars

(***************************************************************************)
(* Question generation: generate_questions is called on the session while  *)
(* its analysis result is replaced and answers are recorded.               *)
(***************************************************************************)
WarnedResult ==
    [EmptyResult EXCEPT !.interaction_warnings =
        << [source |-> "medication_warfarin", target |-> "Omega-3",
            severity |-> "high"] >>]

\* An answer is recorded between two calls; nothing in the code changes
\* health_data, so every call finds the health_data of the first.
GenerateNext ==
    \/ \E r \in {EmptyResult, WarnedResult} : update_analysis(r)
    \/ Len(answers) < Len(generated) /\ add_answer("q1")
    \/ \E health_data \in HealthDataArgs :
          /\ generated # <<>> => health_data = generated[1].health_data
          /\ \E reply \in [SeqRange(health_data.chronic_conditions) -> StoreReplies] :
                generate_questions(health_data, reply)

GenerateSpec == Init /\ [][GenerateNext]_vars

(***************************************************************************)
(* The question queue: the questions a generate_questions call returned    *)
(* are handed to add_questions, once, and the user answers queued          *)
(* questions.                                                              *)
(* Nothing in the code changes health_data, so every call finds the        *)
(* health_data of the first.                                               *)
(***************************************************************************)
QueueNext ==
    \/ \E health_data \in HealthDataArgs :
          /\ generated # <<>> => health_data = generated[1].health_data
          /\ \E reply \in [SeqRange(health_data.chronic_conditions) -> StoreReplies] :
                generate_questions(health_data, reply)
    \/ \E k \in 1..Len(generated) :
          /\ SeqRange(generated[k].questions) \cap SeqRange(current_questions) = {}
          /\ add_questions(generated[k].questions)
    \/ \E i \in 1..Len(current_questions) : add_answer(current_questions[i].id)

QueueSpec == Init /\ [][QueueNext]_vars

(***************************************************************************)
(* The question/answer loop as the repository's own operations drive it:   *)
(* questions are added (which sets waiting_answer), answers are recorded,  *)
(* results are stored, the question list is replaced.  No code of the      *)
(* repository calls update_status or update_session_status, so no status   *)
(* is forced from outside.  The loop runs whenever it can.                 *)
(***************************************************************************)
LoopNext ==
    \/ \E qs \in QuestionListArgs : add_questions(qs)
    \/ \E q \in LifecycleAnswerIds : manager_add_answer(q)
    \/ add_answer("q1")
    \/ \E r \in ResultArgs : add_analysis_result(r)
    \/ \E qs \in QuestionListArgs : update_questions(qs)

LoopSpec == Init /\ [][LoopNext]_vars /\ WF_vars(LoopNext)

(***************************************************************************)
(* Claims about the session state machine.                                 *)
(***************************************************************************)
Terminal == {"completed", "failed"}

\* C1: once the status is completed or failed, no operation changes it.
C1_TerminalStatusIsKept ==
    [][(status \in Terminal) => (status' = status)]_vars

\* C2: in every state current_step equals the number of recorded answers.
C2_StepCountsAnswers ==
    current_step = Len(answers)

\* C3: an increment of current_step made while an answer is recorded never
\* takes it above total_expected_steps.
C3_IncrementStaysWithinBudget ==
    [][(answers' # answers /\ current_step' = current_step + 1)
          => current_step' <= total_expected_steps]_vars

StatusEdges ==
    { <<"created", "analyzing">>, <<"analyzing", "waiting_answer">>,
      <<"waiting_answer", "analyzing">>, <<"analyzing", "completed">> }
    \cup { <<s, "failed">> : s \in Statuses }

\* C4: the status is always one of the five states and changes only along
\* created->analyzing, analyzing->waiting_answer, waiting_answer->analyzing,
\* analyzing->completed and any->failed.
C4_StatusFollowsEdges ==
    [][status' # status =>
          (status' \in Statuses /\ <<status, status'>> \in StatusEdges)]_vars

\* What the submission of task t merged: its factors (for a health_risk
\* answer), its recommendations and its evidence are all in result r.
MergeIsIn(t, r) ==
    /\ proc[t].analysis.answer_type = "health_risk" =>
          \A f \in SeqRange(proc[t].analysis.relevant_factors) :
              \E c \in SeqRange(r.primary_concerns) : c.type = f.type
    /\ SeqRange(proc[t].analysis.recommendations) \subseteq SeqRange(r.recommendations)
    /\ SeqRange(proc[t].evidence) \subseteq SeqRange(r.evidence)

NoneInFlight == \A t \in 1..MaxTasks : proc[t].pc \in {"idle", "done", "raised"}

\* C7: concurrent submissions on one session behave as some serial order of
\* them: once no submission is in flight, the session's AnalysisResult holds
\* the merge of every submission whose result was stored.
C7_NoMergeIsLost ==
    NoneInFlight =>
        \A t \in 1..MaxTasks :
            (proc[t].pc = "done" /\ proc[t].result # None)
                => MergeIsIn(t, analysis_results[1])

(***************************************************************************)
(* Claims about the analysis.                                              *)
(***************************************************************************)
\* min(0.95, base_confidence + evidence_boost * 0.2) as the fraction
\* <<numerator, denominator>> of thousandths.
ClaimedConfidence(rec, evidence) ==
    LET relevant == RelevantEvidence(rec, evidence)
        n == IF relevant = <<>> THEN 1 ELSE Len(relevant)
        num == 5 * n * rec.confidence + SumScores(relevant)
        den == 5 * n
    IN  << IF num > CONFIDENCE_CAP * den THEN CONFIDENCE_CAP * den ELSE num, den >>

\* C5: for every recommendation of an analysis pass, the confidence kept in
\* confidence_levels and the confidence given to the Recommendation both
\* equal min(0.95, base_confidence + evidence_boost * 0.2), so lie in
\* [0, 0.95].
C5_ConfidenceIsCappedSum ==
    an_pc = "built" =>
        \A i \in 1..Len(an.recommendations) :
            LET rec == an.recommendations[i]
                claimed == ClaimedConfidence(rec, an.evidence)
            IN  /\ an.confidence_levels[rec.name] * claimed[2] = claimed[1]
                /\ RecommendationOf(rec).confidence * claimed[2] = claimed[1]
                /\ RecommendationOf(rec).confidence <= CONFIDENCE_CAP

\* Every high warning has a check naming its target and its source.
HighAreChecked(interaction_warnings, required_checks) ==
    \A w \in SeqRange(interaction_warnings) :
        w.severity = "high" =>
            \E c \in SeqRange(required_checks) :
                c.target = w.target /\ c.source = w.source

ResultIsChecked(result) ==
    result # None =>
        HighAreChecked(result[1].interaction_warnings, result[1].required_checks)

\* C6: in the AnalysisResult an analysis pass builds, in the one the session
\* holds and in every one an answer submission returns, each warning of
\* severity high has its source and target named in a required_checks entry.
C6_HighWarningsAreChecked ==
    /\ an_pc = "built" =>
          HighAreChecked(an.interaction_warnings, an.required_checks)
    /\ ResultIsChecked(an_result)
    /\ ResultIsChecked(analysis_results)
    /\ \A t \in 1..MaxTasks : ResultIsChecked(proc[t].result)

\* An analysis pass that found a high warning for a condition and one for a
\* medication.
C6_Witness ==
    /\ an_pc = "built"
    /\ \E w \in SeqRange(an.interaction_warnings) :
           w.severity = "high" /\ w.source = "condition_diabetes"
    /\ \E w \in SeqRange(an.interaction_warnings) :
           w.severity = "high" /\ w.source = "medication_warfarin"
    /\ \E w \in SeqRange(an.interaction_warnings) : w.severity = "medium"


(***************************************************************************)
(* Claims about the pattern store.                                         *)
(***************************************************************************)
Refs == UNION { { <<b, i>> : i \in 1..Len(patterns[b]) } : b \in Buckets }
InCall == {"extracted", "found", "confidence", "frequency", "stored"}
Quiescent ==
    running = 0 /\ \A t \in 1..MaxCalls : learn[t].pc \notin InCall
Completed == Cardinality({ t \in 1..MaxCalls : learn[t].pc = "done" })
\* Calls that went through the frequency statement or stored a new pattern:
\* the completed ones and those whose context merge raised afterwards.
Absorbed ==
    Cardinality({ t \in 1..MaxCalls :
        learn[t].pc = "done" \/ (learn[t].pc = "raised" /\ learn[t].target # <<>>) })
RECURSIVE TotalFrequency(_)
TotalFrequency(refs) ==
    IF refs = {} THEN 0
    ELSE LET r == CHOOSE x \in refs : TRUE
         IN  PatternAt(r).frequency + TotalFrequency(refs \ {r})

\* C8: whatever the order in which concurrent learn_from_interaction calls
\* run, no update is lost: once no call is under way, every call that
\* reached a pattern has added exactly one to the frequency of one pattern,
\* every completed call has left one feedback entry, and every pattern's
\* confidence times its frequency is the sum of the confidences of the
\* observations it absorbed.
C8_NoLearnIsLost ==
    Quiescent =>
        /\ TotalFrequency(Refs) = Absorbed
        /\ feedback_history = Completed
        /\ \A r \in Refs :
              PatternAt(r).confidence[1] * PatternAt(r).frequency
                  = observed[r[1]][r[2]].sum * PatternAt(r).confidence[2]

\* A call has strengthened a pattern another call had stored, while a third
\* call, created before, is still waiting for the event loop.
C8_Witness ==
    \E t, u \in 1..MaxCalls :
        /\ learn[t].pc = "frequency"
        /\ learn[u].pc = "called"
        /\ PatternAt(learn[t].target).frequency >= 2
        /\ PatternAt(learn[t].target).confidence[2] # 1

Stable(r) ==
    \A t \in 1..MaxCalls : ~(learn[t].pc = "confidence" /\ learn[t].target = r)

\* C9: a pattern that has absorbed n observations has frequency n, and its
\* confidence is the arithmetic mean of the n observed confidences.
C9_ConfidenceIsMean ==
    \A r \in Refs :
        Stable(r) =>
            /\ PatternAt(r).frequency = observed[r[1]][r[2]].count
            /\ PatternAt(r).confidence
                   = Fraction(observed[r[1]][r[2]].sum, observed[r[1]][r[2]].count)

\* A pattern that absorbed three observations whose confidences differ.
C9_Witness ==
    \E r \in Refs :
        /\ Stable(r)
        /\ PatternAt(r).frequency = 3
        /\ observed[r[1]][r[2]].sum \in {40 + 40 + 85, 40 + 85 + 85}

\* C10: an observation is compared only with stored patterns of its own
\* type, the pattern it strengthens has its type, and every stored pattern
\* lies in the bucket of its type.
C10_SimilarityStaysInType ==
    /\ \A r \in Refs : PatternAt(r).type = r[1]
    /\ \A t \in 1..MaxCalls :
          /\ learn[t].compared \subseteq {learn[t].pattern.type}
          /\ learn[t].target # <<>> =>
                /\ learn[t].target[1] = learn[t].pattern.type
                /\ PatternAt(learn[t].target).type = learn[t].pattern.type

\* An observation went through the search while a pattern of another type,
\* equal to it in entities, effect and context, was stored; it was compared
\* with a pattern of its own type.
C10_Witness ==
    \E t \in 1..MaxCalls :
        /\ learn[t].pc = "found"
        /\ learn[t].compared # {}
        /\ \E r \in Refs :
              /\ r[1] # learn[t].pattern.type
              /\ ~_calculate_similarity_raises(learn[t].pattern, PatternAt(r))
              /\ SimilarEnough(learn[t].pattern, PatternAt(r))

\* The calls made so far have all returned or raised, and each was given
\* the observation `data`.
LearnedOnly(data) ==
    /\ repeated = Some([same |-> TRUE, data |-> {data}])
    /\ Quiescent
Finished == Cardinality({ t \in 1..MaxCalls : learn[t].pc \in {"done", "raised"} })

C29_SimilarityIsDefined ==
    \A t \in 1..MaxCalls :
        (learn[t].pattern.type \in Buckets /\ learn[t].pc = "raised")
            => learn[t].target # <<>>

\* The stored patterns a step changes or removes, and those it adds.
ChangedRefs ==
    { r \in Refs : \/ r[2] > Len(patterns'[r[1]])
                   \/ patterns'[r[1]][r[2]] # PatternAt(r) }
AddedRefs ==
    UNION { { <<b, i>> : i \in (Len(patterns[b]) + 1)..Len(patterns'[b]) } :
              b \in Buckets }
\* The stored patterns that reach the reuse threshold against `pattern`.
ReachThreshold(pattern) ==
    { r \in Candidates(pattern.type) : SimilarEnough(pattern, PatternAt(r)) }

\* C30: one learn_from_interaction call changes at most one stored pattern.
\* The search settles on a pattern of the highest confidence among those
\* that reach the reuse threshold (on none when none reaches it); every
\* later step of the call changes that pattern only, or, when there is
\* none, adds exactly one pattern and changes no stored one.
C30_LearnChangesOnePattern ==
    [][ /\ Cardinality(ChangedRefs) + Cardinality(AddedRefs) <= 1
        /\ \A t \in 1..MaxCalls :
              /\ (learn[t].pc = "extracted" /\ learn'[t].pc = "found") =>
                    IF ReachThreshold(learn[t].pattern) = {}
                      THEN learn'[t].target = <<>>
                      ELSE /\ learn'[t].target \in ReachThreshold(learn[t].pattern)
                           /\ \A r \in ReachThreshold(learn[t].pattern) :
                                  ~FractionLess(PatternAt(learn'[t].target).confidence,
                                                PatternAt(r).confidence)
              /\ learn[t].pc \in {"found", "confidence", "frequency"} =>
                    learn'[t].target = learn[t].target
        /\ \A r \in ChangedRefs :
              \E t \in 1..MaxCalls :
                  /\ running' \in {0, t}
                  /\ learn[t].pc \in {"found", "confidence", "frequency"}
                  /\ learn[t].target = r
        /\ AddedRefs # {} =>
              \E t \in 1..MaxCalls :
                  learn[t].pc = "found" /\ learn[t].target = <<>>
      ]_vars

\* A call has strengthened the pattern stored second, which had the higher
\* confidence, while the pattern stored first also reaches the reuse
\* threshold against the observation and is as it was stored.
C30_Witness ==
    \E t \in 1..MaxCalls :
        /\ learn[t].pc = "stored"
        /\ learn[t].target = <<learn[t].pattern.type, 2>>
        /\ PatternAt(learn[t].target).frequency = 2
        /\ <<learn[t].pattern.type, 1>> \in ReachThreshold(learn[t].pattern)
        /\ PatternAt(<<learn[t].pattern.type, 1>>).frequency = 1
        /\ PatternAt(<<learn[t].pattern.type, 1>>).confidence = <<40, 1>>

\* C26: patterns are never deleted: in every step the pattern ids of each
\* type (the positions 0 .. len-1 of its bucket) stay, and no stored
\* pattern's frequency decreases.
C26_PatternsAreNeverDeleted ==
    [][\A b \in Buckets :
          /\ Len(patterns'[b]) >= Len(patterns[b])
          /\ \A i \in 1..Len(patterns[b]) :
                 patterns'[b][i].frequency >= patterns[b][i].frequency]_vars


(***************************************************************************)
(* Claims about the Risk Analyzer.                                         *)
(***************************************************************************)
\* The table keys of the metric a risk factor of the given type is about.
KeysOf(type) ==
    CASE type = "obesity" -> {"obesity.bmi"}
      [] type = "underweight" -> {"underweight.bmi"}
      [] type = "hypertension" -> {"hypertension.systolic", "hypertension.diastolic"}
      [] type = "high_cholesterol" -> {"hypercholesterolemia.total"}
      [] type = "liver_function_abnormal" ->
             {"elevated_enzymes.ast", "elevated_enzymes.alt"}
      [] OTHER -> {"sedentary.exercise_frequency"}

\* The snapshot values a risk factor of the given type is about.
ValuesOf(type, health_data) ==
    CASE type \in {"obesity", "underweight"} -> {health_data.bmi}
      [] type = "hypertension" -> {health_data.systolic_bp, health_data.diastolic_bp}
      [] type = "high_cholesterol" -> {health_data.total_cholesterol}
      [] type = "liver_function_abnormal" -> {health_data.sgotast, health_data.sgptalt}
      [] OTHER -> {health_data.exercise_frequency}

\* C27: every RiskFactor a call of the Risk Analyzer returns is about a
\* metric that has a value in the snapshot and a threshold in the configured
\* table: a metric that is null or has no configured threshold produces none.
C27_RiskNeedsValueAndThreshold ==
    (risk_call # None /\ risk_call[1].outcome = "returned") =>
        \A f \in SeqRange(risk_call[1].risk_factors) :
            /\ \E value \in ValuesOf(f.type, risk_call[1].health_data) : value # None
            /\ \E key \in KeysOf(f.type) : risk_call[1].config[1][key] # None


(***************************************************************************)
(* Claims about the question generator.                                    *)
(***************************************************************************)
\* Two calls saw the same session, the same AnalysisResult, the same answers
\* and the same replies of the evidence store.
SameGenerateState(c, d) ==
    /\ c.health_data = d.health_data
    /\ c.analysis_results = d.analysis_results
    /\ c.answers = d.answers
    /\ c.reply = d.reply

\* C11: two generate_questions calls on the same session and AnalysisResult,
\* with no answer recorded in between, return the same set of questions.
C11_GenerateIsIdempotent ==
    \A i, j \in 1..Len(generated) :
        SameGenerateState(generated[i], generated[j]) =>
            /\ generated[i].outcome = generated[j].outcome
            /\ SeqRange(generated[i].questions) = SeqRange(generated[j].questions)

\* The questions of the session that are answered according to a list of
\* recorded answers.
Answered(recorded) ==
    { q \in SeqRange(current_questions) : q.id \in SeqRange(recorded) }

\* C21: no two questions queued in current_questions have the same context,
\* and no question of a generate_questions call has the context of a question
\* that was answered before the call.
C21_ContextsAreNotRepeated ==
    /\ \A i, j \in 1..Len(current_questions) :
           i # j => current_questions[i].context # current_questions[j].context
    /\ \A k \in 1..Len(generated) :
           \A q \in SeqRange(generated[k].questions) :
               \A p \in Answered(generated[k].answers) : p.context # q.context


(***************************************************************************)
(* Claims about answer processing.                                         *)
(***************************************************************************)
\* C12: a submission whose question_id matches no entry of
\* current_questions (question_context is None) raises nothing: it is
\* classified "general" and returns a result.
C12_UnmatchedAnswerIsGeneral ==
    \A t \in 1..MaxTasks :
        (proc[t].pc # "idle" /\ proc[t].question_context = None) =>
            /\ proc[t].pc \in {"returned", "done"}
            /\ proc[t].analysis.answer_type = "general"

\* A search of the evidence store raised inside the submission of task t.
StoreFailed(t) == proc[t].pc = "raised" /\ proc[t].question_context # None

\* C13: while the session has no AnalysisResult, a submission that has left
\* process_answer has returned None, whatever its question_id (unless the
\* evidence store failed), and no AnalysisResult has appeared on the session.
C13_NoResultGivesNone ==
    analysis_results = None =>
        \A t \in 1..MaxTasks :
            (proc[t].pc \in {"returned", "done", "raised"} /\ ~StoreFailed(t)) =>
                /\ proc[t].pc \in {"returned", "done"}
                /\ proc[t].result = None

\* No two primary_concerns of the result have the same type, and no two
\* recommendations a merge appended have the same (type, target).
NoDuplicateEntity(result) ==
    result # None =>
        LET concerns == result[1].primary_concerns
            recs == result[1].recommendations
        IN  /\ \A i, j \in 1..Len(concerns) :
                   i # j => concerns[i].type # concerns[j].type
            /\ \A i, j \in 1..Len(recs) :
                   (i # j /\ ~IsModel(recs[i]) /\ ~IsModel(recs[j])) =>
                       <<recs[i].type, recs[i].target>>
                           # <<recs[j].type, recs[j].target>>

\* C22: on a session whose AnalysisResult starts without duplicates, the
\* merge of an answer never duplicates an entity: the result the session
\* holds, the copy a submission has merged into and the result it returns
\* have at most one primary concern per type and at most one merged
\* recommendation per (type, target).
C22_MergeNeverDuplicates ==
    /\ NoDuplicateEntity(analysis_results)
    /\ \A t \in 1..MaxTasks :
          /\ NoDuplicateEntity(proc[t].updated_result)
          /\ NoDuplicateEntity(proc[t].result)

\* A health_risk answer whose factor has the type of a concern the result
\* already held was merged: the concern keeps its severity, has the factor's
\* confidence, and is still the only one, in a result that holds the
\* recommendation the merge of a lifestyle answer had appended.
C22_Witness ==
    \E t, u \in 1..MaxTasks :
        /\ proc[t].pc = "returned"
        /\ proc[t].analysis.answer_type = "health_risk"
        /\ proc[t].analysis.relevant_factors # <<>>
        /\ proc[t].result # None
        /\ proc[t].result[1].primary_concerns
               = << [type |-> "obesity", severity |-> "medium", confidence |-> 850] >>
        /\ proc[u].pc = "done"
        /\ proc[u].analysis.recommendations # <<>>
        /\ proc[u].analysis.recommendations = proc[t].result[1].recommendations

IsPrefix(a, b) == Len(a) <= Len(b) /\ SubSeq(b, 1, Len(a)) = a

\* The types of the factors the answer of task t made relevant.
FactorTypes(p) == { f.type : f \in SeqRange(p.analysis.relevant_factors) }

\* C23: a submission's copy of the session's AnalysisResult holds the
\* session's evidence list as it is when the copy is taken, and the result
\* the submission returns holds that list as a prefix, followed by at most
\* one evidence entry per relevant factor of the answer, each for one of
\* these factors.
C23_EvidenceOnlyGrows ==
    [][\A t \in 1..MaxTasks :
          /\ (proc'[t].updated_result # proc[t].updated_result
                 /\ proc'[t].updated_result # None) =>
                 proc'[t].updated_result[1].evidence = analysis_results[1].evidence
          /\ (proc[t].pc # "returned" /\ proc'[t].pc = "returned"
                 /\ proc'[t].result # None) =>
                 LET before == proc'[t].updated_result[1].evidence
                     after == proc'[t].result[1].evidence
                 IN  /\ IsPrefix(before, after)
                     /\ Len(after) - Len(before)
                            <= Len(proc'[t].analysis.relevant_factors)
                     /\ \A k \in (Len(before) + 1)..Len(after) :
                            after[k].factor \in FactorTypes(proc'[t])]_vars

\* A submission has returned a result whose evidence is the evidence an
\* earlier submission had left on the session, followed by one entry for
\* another factor.
C23_Witness ==
    \E t \in 1..MaxTasks :
        /\ proc[t].pc = "returned"
        /\ proc[t].result # None
        /\ Len(proc[t].updated_result[1].evidence) = 1
        /\ Len(proc[t].result[1].evidence) = 2
        /\ proc[t].result[1].evidence[1].factor # proc[t].result[1].evidence[2].factor

\* C24: a failure of the type-specific analysis, of the merge or of the
\* additional-evidence search leaves process_answer as an exception: the
\* call has no result then and never gets one, and no step of a submission
\* other than the caller storing its returned result changes the session's
\* AnalysisResult, the merge being made on a copy.
C24_FailureIsRaisedAndLeavesResult ==
    [][\A t \in 1..MaxTasks :
          /\ (proc[t].pc # "raised" /\ proc'[t].pc = "raised") =>
                 (proc'[t].result = None /\ analysis_results' = analysis_results)
          /\ proc[t].pc = "raised" => proc'[t] = proc[t]
          /\ (proc'[t] # proc[t] /\ proc'[t].pc # "done") =>
                 analysis_results' = analysis_results]_vars

\* One submission failed in the merge (a Recommendation model in the list),
\* the other in the additional-evidence search after its merge had changed
\* its copy; the session holds the result it held before both.
C24_Witness ==
    \E t, u \in 1..MaxTasks :
        /\ proc[t].pc = "raised"
        /\ proc[t].analysis.recommendations # <<>>
        /\ proc[t].updated_result = None
        /\ proc[u].pc = "raised"
        /\ proc[u].updated_result # None
        /\ proc[u].updated_result # analysis_results
        /\ analysis_results = Some(RecommendedResult)


(***************************************************************************)
(* Claims about the interaction analysis.                                  *)
(***************************************************************************)
PairWarnings(a, b) ==
    { k \in 1..Len(an.interaction_warnings) :
        {an.interaction_warnings[k].source, an.interaction_warnings[k].target}
            = {a, b} }
PairChecks(a, b) ==
    { k \in 1..Len(an.required_checks) :
        {an.required_checks[k].source, an.required_checks[k].target} = {a, b} }

\* C14: once the interaction analysis and the required checks are computed,
\* every two recommendations of different names (the evidence store holding
\* an interaction of relevance above 0.8 for them) have exactly one warning
\* naming both, of severity high, and exactly one required check naming both.
C14_PairGetsOneHighWarning ==
    an_pc = "built" =>
        \A i, j \in 1..Len(an.recommendations) :
            LET a == an.recommendations[i].name
                b == an.recommendations[j].name
            IN  (a # b /\ a # Missing /\ b # Missing) =>
                    /\ Cardinality(PairWarnings(a, b)) = 1
                    /\ \A k \in PairWarnings(a, b) :
                           an.interaction_warnings[k].severity = "high"
                    /\ Cardinality(PairChecks(a, b)) = 1


\* C25: when the lookup of one pair fails, the interaction analysis does not
\* abort: analyze goes on, and the warnings it has hold one for that pair of
\* severity "unknown".
C25_FailedLookupIsDowngraded ==
    an.failed_lookup # None =>
        /\ an_pc # "raised"
        /\ \E w \in SeqRange(an.interaction_warnings) :
               /\ <<w.source, w.target>> = an.failed_lookup[1]
               /\ w.severity = "unknown"


\* C15: the context merge of a strengthen never fails, and it leaves every
\* context value a scalar or a list of scalars (the union of the observed
\* values), never a list that holds a list.
C15_ContextMergeSucceeds ==
    /\ \A t \in 1..MaxCalls : ~(learn[t].pc = "raised" /\ learn[t].target # <<>>)
    /\ \A r \in Refs : \A key \in DOMAIN PatternAt(r).context :
           ~HoldsList(PatternAt(r).context[key])


\* C16: a learn_from_interaction call on an observation of interaction_type
\* "supplement_interaction" does not raise, and once it is past the search
\* and the store step the "supplement_interactions" bucket holds a pattern.
C16_SupplementInteractionIsLearned ==
    \A t \in 1..MaxCalls :
        learn[t].pattern.type = "supplement_interaction" =>
            /\ learn[t].pc # "raised"
            /\ learn[t].pc = "stored" => patterns["supplement_interactions"] # <<>>


(***************************************************************************)
(* Claims about failures and the session life cycle.                       *)
(***************************************************************************)
\* C17: when analyze has failed, the step in which create_session handles
\* the failure makes the session's status failed and installs no
\* AnalysisResult.
C17_FailureMarksSessionFailed ==
    [][(an_pc = "raised" /\ an_pc' = "stored") =>
          (status' = "failed" /\ analysis_results' = analysis_results)]_vars


\* C18: every session eventually reaches completed or failed.
C18_SessionTerminates ==
    <>(status \in Terminal)

\* C19: when a session in waiting_answer that has received an answer gets an
\* updated AnalysisResult stored, its status is analyzing afterwards.
C19_AnswerLeadsToAnalyzing ==
    [][(/\ live
        /\ status = WAITING_ANSWER
        /\ answers # <<>>
        /\ analysis_results' # analysis_results
        /\ analysis_results' # None) => (status' = "analyzing")]_vars

\* C20: in every state with status waiting_answer the session's
\* current_questions is not empty.
C20_WaitingHasQuestions ==
    status = WAITING_ANSWER => current_questions # <<>>

====
